---- MODULE Spec2Model ----
(***************************************************************************)
(* Model of the auth-server packet pipeline of mmo-rs: the legacy scramble *)
(* functions and the cipher pair (auth/crypt.rs), the message encoding     *)
(* (auth/message.rs) and the packet sender (auth/sender.rs).               *)
(*                                                                         *)
(* Bytes are naturals 0..255; a buffer is a sequence of bytes, index i of  *)
(* the Rust slice being element i+1.  A 32-bit value is its four           *)
(* little-endian bytes, so wrapping addition and xor are done bytewise.    *)
(* Blowfish itself is not computed: a ciphertext byte is the term          *)
(* <<key, plaintext block, index>>, which only the same key opens.         *)
(***************************************************************************)
EXTENDS Integers, Sequences, FiniteSets, TLC

\* ------------------------------------------------------------- constants

HEADER_SIZE == 2
BUFFER_SIZE == 1024
BLOCK_SIZE == 4
\* Cipher::bf_ecb().block_size()
BF_BLOCK_SIZE == 8
INIT_KEY == <<107, 96, 203, 91, 130, 206, 144, 177, 204, 43, 108, 85, 108, 108, 108, 108>>
\* PROTOCOL_VERSION = 0xc621
PROTOCOL_VERSION == 50721

\* ---------------------------------------------------------- byte helpers

RECURSIVE BitXor(_, _)
BitXor(a, b) ==
    IF a = 0 THEN b
    ELSE IF b = 0 THEN a
    ELSE (((a % 2) + (b % 2)) % 2) + 2 * BitXor(a \div 2, b \div 2)

\* a sequence given as a function, evaluated once
Tuple(f, n) == SubSeq(f, 1, n)

Zeros(n) == Tuple([i \in 1..n |-> 0], n)

\* buffer.swap(i, j) on 0-based indices
Swap(buf, i, j) == [buf EXCEPT ![i + 1] = buf[j + 1], ![j + 1] = buf[i + 1]]

\* Cursor::new(&mut buf[off..]).write_all(bytes): overwrite in place
WriteAt(buf, off, bytes) ==
    SubSeq(buf, 1, off) \o bytes \o SubSeq(buf, off + Len(bytes) + 1, Len(buf))

\* write_i32::<LittleEndian>(n) for n in the i32 range: the two's complement bytes
I32Bytes(n) ==
    LET m == IF n >= 0 THEN n ELSE (n + 2147483647) + 1
        top == IF n >= 0 THEN 0 ELSE 128
    IN <<m % 256, (m \div 256) % 256, (m \div 65536) % 256, (m \div 16777216) + top>>

\* the two bytes of an i16, big-endian
I16BytesBE(n) == <<(n \div 256) % 256, n % 256>>

\* write_i16::<LittleEndian>(n as i16) for 0 <= n < 2^15
I16Bytes(n) == <<n % 256, (n \div 256) % 256>>

\* Wrapping(i32) addition on little-endian byte quadruples
WrapAdd32(x, y) ==
    LET s1 == x[1] + y[1]
        s2 == x[2] + y[2] + (s1 \div 256)
        s3 == x[3] + y[3] + (s2 \div 256)
        s4 == x[4] + y[4] + (s3 \div 256)
    IN <<s1 % 256, s2 % 256, s3 % 256, s4 % 256>>

Xor32(x, y) == <<BitXor(x[1], y[1]), BitXor(x[2], y[2]), BitXor(x[3], y[3]), BitXor(x[4], y[4])>>

\* ------------------------------------------------- auth/crypt.rs, pure part

\* The loops below run their iterations lo, lo+1, ..., hi-1 in that order, each on
\* the result of the one before.  The range is halved, and the first half is
\* computed (the test on its length) before the second starts, only to keep the
\* evaluation shallow.

\* for i in lo..hi { m.swap(i, i + 77) }
RECURSIVE SwapLoop(_, _, _)
RECURSIVE SwapRest(_, _, _)
SwapLoop(m, lo, hi) ==
    IF hi <= lo THEN m
    ELSE IF hi = lo + 1 THEN Swap(m, lo, lo + 77)
    ELSE SwapRest(SwapLoop(m, lo, (lo + hi) \div 2), (lo + hi) \div 2, hi)

\* the iterations lo..hi-1 on m, the result of the ones before them
SwapRest(m, lo, hi) == IF Len(m) >= 0 THEN SwapLoop(m, lo, hi) ELSE m

\* for i in lo..hi { m[i + dst] ^= m[i + src] }
RECURSIVE XorLoop(_, _, _, _, _)
RECURSIVE XorRest(_, _, _, _, _)
XorLoop(m, lo, hi, dst, src) ==
    IF hi <= lo THEN m
    ELSE IF hi = lo + 1
        THEN [m EXCEPT ![lo + dst + 1] = BitXor(m[lo + dst + 1], m[lo + src + 1])]
    ELSE XorRest(XorLoop(m, lo, (lo + hi) \div 2, dst, src), (lo + hi) \div 2, hi, dst, src)

\* the iterations lo..hi-1 on m, the result of the ones before them
XorRest(m, lo, hi, dst, src) == IF Len(m) >= 0 THEN XorLoop(m, lo, hi, dst, src) ELSE m

\* scramble_modulus with its second and third loops exchanged
scramble_modulus_reordered(modulus) ==
    XorLoop(XorLoop(XorLoop(SwapLoop(modulus, 0, 4), 0, 4, 13, 52), 0, 64, 0, 64),
            0, 64, 64, 0)

scramble_modulus(modulus) ==
    XorLoop(XorLoop(XorLoop(SwapLoop(modulus, 0, 4), 0, 64, 0, 64), 0, 4, 13, 52),
            0, 64, 64, 0)

\* the body of the loop of scramble_init on the four bytes at `offset`, with the
\* key already advanced by them
ScrambleWrite(st, offset, key) ==
    [ok |-> TRUE, key |-> key,
     buffer |-> WriteAt(st.buffer, offset,
                        Xor32(SubSeq(st.buffer, offset + 1, offset + 4), key))]

\* the iteration with the block xored before the key is advanced
ScrambleBlockXorFirst(st, offset) ==
    IF ~st.ok THEN st
    ELSE IF offset + 4 > Len(st.buffer) THEN [st EXCEPT !.ok = FALSE]
    ELSE [ok |-> TRUE,
          key |-> WrapAdd32(st.key, SubSeq(st.buffer, offset + 1, offset + 4)),
          buffer |-> WriteAt(st.buffer, offset,
                             Xor32(SubSeq(st.buffer, offset + 1, offset + 4), st.key))]

\* one iteration of the loop of scramble_init, at `offset`, on [ok, buffer, key];
\* read_i32 with fewer than four bytes left is UnexpectedEof and ends the call
ScrambleBlock(st, offset) ==
    IF ~st.ok THEN st
    ELSE IF offset + 4 > Len(st.buffer) THEN [st EXCEPT !.ok = FALSE]
    ELSE ScrambleWrite(st, offset,
                       WrapAdd32(st.key, SubSeq(st.buffer, offset + 1, offset + 4)))

\* for offset in (BLOCK_SIZE..size).step_by(BLOCK_SIZE): iterations lo..hi-1, the
\* i-th at offset BLOCK_SIZE * (i + 1)
RECURSIVE ScrambleBlocks(_, _, _)
RECURSIVE ScrambleRest(_, _, _)
ScrambleBlocks(st, lo, hi) ==
    IF hi <= lo THEN st
    ELSE IF hi = lo + 1 THEN ScrambleBlock(st, BLOCK_SIZE * (lo + 1))
    ELSE ScrambleRest(ScrambleBlocks(st, lo, (lo + hi) \div 2), (lo + hi) \div 2, hi)

\* the iterations lo..hi-1 on st, the result of the ones before them
ScrambleRest(st, lo, hi) == IF Len(st.buffer) >= 0 THEN ScrambleBlocks(st, lo, hi) ELSE st

\* the trailing write_i32 of scramble_init: with fewer than four bytes left it
\* stores the bytes that fit and fails with WriteZero
ScrambleKey(r, size) ==
    IF ~r.ok THEN [ok |-> FALSE, buffer |-> r.buffer]
    ELSE IF size + 4 > Len(r.buffer)
        THEN [ok |-> FALSE,
              buffer |-> WriteAt(r.buffer, size, SubSeq(r.key, 1, Len(r.buffer) - size))]
        ELSE [ok |-> TRUE, buffer |-> WriteAt(r.buffer, size, r.key)]

\* scramble_init(buffer, size, key) for size <= buffer.len(): [ok, buffer]
scramble_init(buffer, size, key) ==
    ScrambleKey(ScrambleBlocks([ok |-> TRUE, buffer |-> buffer, key |-> key], 0,
                               IF size > BLOCK_SIZE
                               THEN (size - BLOCK_SIZE + (BLOCK_SIZE - 1)) \div BLOCK_SIZE
                               ELSE 0),
                size)

\* the bytes of every 4-byte block moved round by one place
blowfish_compat_rotated(buffer) ==
    Tuple([i \in 1..Len(buffer) |-> buffer[4 * ((i - 1) \div 4) + (i % 4) + 1]],
          Len(buffer))

\* blowfish_compat(buffer) for a buffer whose length is a multiple of 4
blowfish_compat(buffer) ==
    Tuple([i \in 1..Len(buffer) |-> buffer[4 * ((i - 1) \div 4) + (4 - ((i - 1) % 4))]],
          Len(buffer))

\* The ciphers are Crypter values keyed by a 16-byte key.  encrypt.update(input,
\* output) with padding off writes one ciphertext block per whole 8-byte block of
\* input at the front of output and returns the number of bytes written.
CipherByte(key, block, i) == <<key, block, i>>

EncryptUpdate(key, input, output) ==
    LET n == BF_BLOCK_SIZE * (Len(input) \div BF_BLOCK_SIZE)
        ct == Tuple([i \in 1..n |->
                 CipherByte(key,
                            SubSeq(input, BF_BLOCK_SIZE * ((i - 1) \div BF_BLOCK_SIZE) + 1,
                                   BF_BLOCK_SIZE * ((i - 1) \div BF_BLOCK_SIZE) + BF_BLOCK_SIZE),
                            (i - 1) % BF_BLOCK_SIZE)], n)
    IN [size |-> n, buffer |-> WriteAt(output, 0, ct)]

\* ------------------------------------------------------ auth/message.rs

GGAuthResult_Skip == 11

InitMsg(session_id, modulus, crypt_key) ==
    [type |-> "Init", session_id |-> session_id, modulus |-> modulus, crypt_key |-> crypt_key]

GGAuthMsg(result) == [type |-> "GGAuth", result |-> result]

\* encode without the two seeks over the reserved bytes
encodeNoSeek(msg, buf, pos) ==
    IF msg.type = "Init"
    THEN [buf |-> WriteAt(WriteAt(WriteAt(WriteAt(WriteAt(buf,
                      pos, <<0>>),
                      pos + 1, I32Bytes(msg.session_id)),
                      pos + 5, I32Bytes(PROTOCOL_VERSION)),
                      pos + 9, scramble_modulus(msg.modulus)),
                      pos + 9 + 128, msg.crypt_key),
          pos |-> pos + 9 + 128 + 16]
    ELSE [buf |-> WriteAt(WriteAt(buf, pos, <<11>>), pos + 1, I32Bytes(msg.result)),
          pos |-> pos + 5]

\* encode(msg, io) on a cursor at `pos` over `buf`: the buffer and the new position
encode(msg, buf, pos) ==
    IF msg.type = "Init"
    THEN [buf |-> WriteAt(WriteAt(WriteAt(WriteAt(WriteAt(buf,
                      pos, <<0>>),
                      pos + 1, I32Bytes(msg.session_id)),
                      pos + 5, I32Bytes(PROTOCOL_VERSION)),
                      pos + 9, scramble_modulus(msg.modulus)),
                      pos + 9 + 128 + 16, msg.crypt_key),
          pos |-> pos + 9 + 128 + 16 + 16]
    ELSE [buf |-> WriteAt(WriteAt(buf, pos, <<11>>), pos + 1, I32Bytes(msg.result)),
          pos |-> pos + 5 + 16]

\* read_c on a cursor at `pos` over `buf`: one byte read as an i8, the cursor one
\* further; with no byte left the read fails and the cursor stays
read_c(buf, pos) ==
    IF pos >= Len(buf) THEN [ok |-> FALSE, kind |-> "UnexpectedEof", value |-> 0, pos |-> pos]
    ELSE [ok |-> TRUE, kind |-> "none",
          value |-> IF buf[pos + 1] >= 128 THEN buf[pos + 1] - 256 ELSE buf[pos + 1],
          pos |-> pos + 1]

\* format!("{:02x}", id) of an i8: the two hex digits of its two's complement byte
Hex2(id) == <<((id + 256) % 256) \div 16, ((id + 256) % 256) % 16>>

AuthGameGuard == [type |-> "AuthGameGuard"]
NoClientMessage == [type |-> "None"]

\* decode that takes the tag of GGAuth for a request as well
decodeLoose(r) ==
    IF ~r.ok THEN [ok |-> FALSE, kind |-> r.kind, msg |-> NoClientMessage, text |-> <<>>,
                   pos |-> r.pos]
    ELSE IF r.value \in {7, 11}
        THEN [ok |-> TRUE, kind |-> "none", msg |-> AuthGameGuard, text |-> <<>>, pos |-> r.pos]
    ELSE [ok |-> FALSE, kind |-> "InvalidData", msg |-> NoClientMessage,
          text |-> <<"Invalid packet id (0x", Hex2(r.value), ")">>, pos |-> r.pos]

\* decode(io), with r the result of io.read_c(): [ok, kind, msg, text, pos]
decode(r) ==
    IF ~r.ok THEN [ok |-> FALSE, kind |-> r.kind, msg |-> NoClientMessage, text |-> <<>>,
                   pos |-> r.pos]
    ELSE IF r.value = 7
        THEN [ok |-> TRUE, kind |-> "none", msg |-> AuthGameGuard, text |-> <<>>, pos |-> r.pos]
    ELSE [ok |-> FALSE, kind |-> "InvalidData", msg |-> NoClientMessage,
          text |-> <<"Invalid packet id (0x", Hex2(r.value), ")">>, pos |-> r.pos]

\* ------------------------------------------------------- auth/sender.rs

\* pad with the limit compared by <=
padInclusive(size, block_size) ==
    LET padded_size == IF size % block_size # 0
                       THEN size + (block_size - (size % block_size)) ELSE size
    IN IF padded_size <= BUFFER_SIZE THEN [ok |-> TRUE, size |-> padded_size]
       ELSE [ok |-> FALSE, size |-> padded_size]

\* AuthClientSenderImpl::pad
pad(size, block_size) ==
    LET padded_size == IF size % block_size # 0
                       THEN size + (block_size - (size % block_size))
                       ELSE size
    IN IF padded_size < BUFFER_SIZE THEN [ok |-> TRUE, size |-> padded_size]
       ELSE [ok |-> FALSE, size |-> padded_size]

\* the buffer left as the send before left it
fill0Skipped(buf) == buf

\* self.packet.fill(0) / self.buffer.fill(0)
fill0(buf) == Tuple([i \in 1..Len(buf) |-> 0], Len(buf))

new_crypt_key(msg) == IF msg.type = "Init" THEN <<msg.crypt_key>> ELSE <<>>

\* blowfish_compat(&mut buf[..size])
CompatPrefix(buf, size) == blowfish_compat(SubSeq(buf, 1, size)) \o SubSeq(buf, size + 1, Len(buf))

\* send, from "Reset buffers" up to the crypt lock (lines 58-86), on the old
\* contents of self.packet; `key` is the four bytes of rand_bytes and rand_ok
\* whether rand_bytes succeeded.  err is "none" or the step that returned Err.
\* send returns Err from the step `err` with the packet buffer and size as given
Failed(err, packet, size) == [err |-> err, packet |-> packet, size |-> size]

\* line 86: size = self.pad(size, Cipher::bf_ecb().block_size())?
PadCipher(packet, s4) ==
    IF ~s4.ok THEN Failed("pad", packet, s4.size)
    ELSE [err |-> "none", packet |-> packet, size |-> s4.size]

\* lines 84-86, with s3 the result of the pad of line 84
CompatPadded(packet, s3) ==
    IF ~s3.ok THEN Failed("pad", packet, s3.size)
    ELSE PadCipher(CompatPrefix(packet, s3.size), pad(s3.size, BF_BLOCK_SIZE))

\* lines 83-86 without the blowfish_compat before the cipher
CompatStageUnshimmed(packet, size) ==
    IF ~pad(size, BLOCK_SIZE).ok THEN Failed("pad", packet, pad(size, BLOCK_SIZE).size)
    ELSE PadCipher(packet, pad(pad(size, BLOCK_SIZE).size, BF_BLOCK_SIZE))

\* lines 83-86: pad, blowfish_compat(&mut self.packet[..size]), pad
CompatStage(packet, size) == CompatPadded(packet, pad(size, BLOCK_SIZE))

\* lines 79-86, with sc the result of scramble_init
Scrambled(sc, size) ==
    IF ~sc.ok THEN Failed("scramble", sc.buffer, size)
    ELSE CompatStage(sc.buffer, size + BLOCK_SIZE)

\* lines 78-86, with s2 the result of the pad of line 78
ScramblePadded(packet, s2, key) ==
    IF ~s2.ok THEN Failed("pad", packet, s2.size)
    ELSE Scrambled(scramble_init(packet, s2.size, key), s2.size)

\* lines 73-86: the additional encryption of the packet that carries a key, then
\* the rest; rand_ok tells whether rand_bytes returned Ok, key is what it drew
ScrambleStage(packet, size, msg, key, rand_ok) ==
    IF new_crypt_key(msg) = <<>> THEN CompatStage(packet, size)
    ELSE IF ~rand_ok THEN Failed("rand", packet, size)
    ELSE ScramblePadded(packet, pad(size, BLOCK_SIZE), key)

\* lines 67-86, with s1 the result of the pad of line 68
ChecksumPadded(e, s1, msg, key, rand_ok) ==
    IF ~s1.ok THEN Failed("pad", e.buf, s1.size)
    ELSE ScrambleStage(WriteAt(e.buf, s1.size, I32Bytes(0)), s1.size + BLOCK_SIZE,
                       msg, key, rand_ok)

\* lines 67-86, with e the result of encode
ChecksumStage(e, msg, key, rand_ok) ==
    ChecksumPadded(e, pad(e.pos, BLOCK_SIZE), msg, key, rand_ok)

\* send up to the lock (lines 58-86) on the packet buffer: [err, packet, size],
\* err "none" when the lock is reached
Prepare(packet, msg, key, rand_ok) ==
    ChecksumStage(encode(msg, fill0(packet), 0), msg, key, rand_ok)

\* the header without HEADER_SIZE added
HeaderBare(size) == I16Bytes(size)

\* the header bytes: write_h((size + HEADER_SIZE) as i16)
Header(size) == I16Bytes(size + HEADER_SIZE)

\* ------------------------------------------------------------ the model

\* bounds of the model: the sends one sender makes in a row, and the sends two
\* senders sharing the ciphers make between them
MaxSends == 3
MaxShared == 2
MaxFrames == 2
MaxFaults == 1

\* bounds of the sizes pad is called with on its own: the PadLow lowest and the
\* PadHigh highest below the capacity; and of the sends made next to them
PadLow == 24
PadHigh == 24
MaxPadSends == 1

\* The senders are AuthClientSenderImpl values built by new(writer, crypt) on
\* clones of one Arc<Mutex<AuthClientCrypt>>; each is driven by its own thread.
Senders == {1, 2}

\* inputs: the traffic keys differ from INIT_KEY, as 16 random bytes do
KeyA == <<1, 2, 3, 4, 5, 6, 7, 8, 9, 10, 11, 12, 13, 14, 15, 16>>
KeyB == Zeros(16)
Keys == {KeyA, KeyB}
Modulus == Tuple([i \in 1..128 |-> (7 * i + 3) % 256], 128)
SessionId == 514703087
Messages == {InitMsg(SessionId, Modulus, k) : k \in Keys} \cup {GGAuthMsg(GGAuthResult_Skip)}
\* what rand_bytes fills the four key bytes with in the sends of the messages
RandKey == <<239, 190, 173, 222>>
NoMsg == [type |-> "None"]
NoKey == <<>>

\* the modulus of the tests of crypt.rs and message.rs and what they expect
\* scramble_modulus to make of it
GoldenModulus == <<
    154, 39, 118, 105, 2, 55, 35, 148, 125, 14, 189, 204, 239, 150, 122, 36,
    199, 21, 1, 141, 246, 206, 102, 65, 79, 204, 208, 245, 186, 181, 65, 36,
    184, 202, 172, 109, 127, 82, 248, 187, 186, 183, 222, 146, 107, 79, 10, 196,
    204, 132, 121, 49, 150, 228, 73, 40, 119, 74, 87, 115, 125, 14, 78, 224,
    41, 98, 149, 34, 87, 80, 110, 137, 136, 70, 227, 83, 250, 95, 238, 49,
    64, 154, 29, 50, 18, 79, 184, 223, 83, 217, 105, 221, 122, 162, 34, 134,
    111, 168, 94, 16, 111, 138, 7, 227, 51, 216, 222, 212, 177, 10, 131, 0,
    179, 45, 95, 71, 204, 94, 171, 20, 3, 63, 162, 188, 9, 80, 181, 201>>
GoldenScrambled == <<
    118, 140, 164, 98, 85, 103, 77, 29, 245, 72, 94, 159, 21, 86, 231, 176,
    146, 143, 28, 191, 228, 129, 222, 158, 28, 21, 185, 40, 192, 23, 99, 162,
    215, 98, 242, 125, 16, 216, 255, 88, 137, 111, 0, 70, 218, 69, 137, 196,
    127, 169, 38, 118, 90, 186, 226, 60, 116, 117, 245, 207, 116, 94, 251, 41,
    95, 238, 49, 64, 2, 55, 35, 148, 125, 14, 189, 204, 239, 204, 192, 198,
    251, 21, 1, 141, 246, 206, 102, 65, 79, 204, 208, 245, 186, 181, 65, 36,
    184, 202, 172, 109, 127, 82, 248, 187, 186, 183, 222, 146, 107, 79, 10, 196,
    204, 132, 121, 49, 150, 228, 73, 40, 119, 74, 87, 115, 125, 14, 78, 224>>
\* session_id of tests::server_init: -559038737
GoldenSessionId == 0 - 559038737

VARIABLES
    crypt,      \* the AuthClientCrypt: [encrypt, decrypt], each the key of that Crypter
    lock,       \* the Mutex around it: [owner (0: free), poisoned]
    sender,     \* per sender: [packet, buffer, wire]; wire is what its writer received
    call,       \* per sender: the send in progress: [pc, msg, size, ...]
    hist,       \* per sender: the finished sends, oldest first
    nSends,     \* sends started
    nFaults,    \* failures the environment has injected
    padded,     \* pad called on its own: the size it is given and what it made of it
    applied,    \* a function of crypt.rs or message.rs called on its own: input and result
    client      \* the AuthClient: its state Mutex, its keys, the init() calls of its threads

vars == <<crypt, lock, sender, call, hist, nSends, nFaults, padded, applied, client>>

Idle == [pc |-> "idle", msg |-> NoMsg, rand |-> NoKey, size |-> 0, used |-> NoKey,
         setEnc |-> FALSE, setDec |-> FALSE, w0 |-> 0, enc0 |-> NoKey, dec0 |-> NoKey]

\* pad is not called on its own: the sends are those of the messages
NoPad == [step |-> "none", pos |-> 0, block_size |-> BLOCK_SIZE,
          one |-> [ok |-> TRUE, size |-> 0]]

\* no function is called on its own
NoApply == [fn |-> "none", step |-> "none"]

\* no AuthClient is built: the sender is driven directly
NoClient == [built |-> FALSE]

\* AuthClientCrypt::new(INIT_KEY) and AuthClientSenderImpl::new
InitSenders ==
    /\ crypt = [encrypt |-> INIT_KEY, decrypt |-> INIT_KEY]
    /\ lock = [owner |-> 0, poisoned |-> FALSE]
    /\ sender = [s \in Senders |->
                    [packet |-> Zeros(BUFFER_SIZE), buffer |-> Zeros(BUFFER_SIZE), wire |-> <<>>]]
    /\ call = [s \in Senders |-> Idle]
    /\ hist = [s \in Senders |-> <<>>]
    /\ nSends = 0
    /\ nFaults = 0

Init == InitSenders /\ padded = NoPad /\ applied = NoApply /\ client = NoClient

\* send returns `res` ("Ok" or the step that returned Err) from the call `c` with
\* the sender left as `snd` and the ciphers as `crypt2`: the call is recorded
Return(s, c, res, snd, crypt2) ==
    /\ hist' = [hist EXCEPT ![s] = Append(@,
                   [msg |-> c.msg, rand |-> c.rand, res |-> res,
                    size |-> c.size, used |-> c.used,
                    setEnc |-> c.setEnc, setDec |-> c.setDec,
                    w0 |-> c.w0, w1 |-> Len(snd.wire),
                    enc0 |-> c.enc0, dec0 |-> c.dec0,
                    enc1 |-> crypt2.encrypt, dec1 |-> crypt2.decrypt])]
    /\ call' = [call EXCEPT ![s] = Idle]

CanFail == nFaults < MaxFaults

RandFor(msg) == IF new_crypt_key(msg) # <<>> THEN {RandKey} ELSE {NoKey}

Started(s, msg, rand) ==
    [Idle EXCEPT !.msg = msg, !.rand = rand, !.w0 = Len(sender[s].wire),
                 !.enc0 = crypt.encrypt, !.dec0 = crypt.decrypt]

\* send has run up to the lock with the result pr of lines 58-86: it goes on to
\* the lock, or returns the error
Begin(s, msg, rand, pr) ==
    LET snd == [sender[s] EXCEPT !.packet = pr.packet, !.buffer = fill0(@)]
        c == [Started(s, msg, rand) EXCEPT !.size = pr.size]
    IN /\ sender' = [sender EXCEPT ![s] = snd]
       /\ IF pr.err = "none"
          THEN /\ call' = [call EXCEPT ![s] = [c EXCEPT !.pc = "lock"]]
               /\ UNCHANGED hist
          ELSE Return(s, c, pr.err, snd, crypt)

\* send, lines 50-86: everything before the crypt lock
SendBegin(s, max) ==
    /\ call[s].pc = "idle"
    /\ nSends < max
    /\ \E msg \in Messages : \E rand \in RandFor(msg) :
        \E pr \in {Prepare(sender[s].packet, msg, rand, TRUE)} : Begin(s, msg, rand, pr)
    /\ nSends' = nSends + 1
    /\ UNCHANGED <<crypt, lock, nFaults, padded, applied, client>>

\* the same, with rand_bytes returning Err (line 76)
SendBeginRandFails(s, max) ==
    /\ call[s].pc = "idle"
    /\ nSends < max
    /\ CanFail
    /\ \E msg \in Messages :
        /\ new_crypt_key(msg) # <<>>
        /\ \E pr \in {Prepare(sender[s].packet, msg, NoKey, FALSE)} :
           LET snd == [sender[s] EXCEPT !.packet = pr.packet, !.buffer = fill0(@)]
               c == [Started(s, msg, NoKey) EXCEPT !.size = pr.size]
           IN /\ sender' = [sender EXCEPT ![s] = snd]
              /\ Return(s, c, pr.err, snd, crypt)
    /\ nSends' = nSends + 1
    /\ nFaults' = nFaults + 1
    /\ UNCHANGED <<crypt, lock, padded, applied, client>>

\* self.crypt.lock() (lines 88-91) on a mutex that is free and not poisoned
Lock(s) ==
    /\ call[s].pc = "lock"
    /\ lock.owner = 0
    /\ ~lock.poisoned
    /\ lock' = [lock EXCEPT !.owner = s]
    /\ call' = [call EXCEPT ![s].pc = "encrypt"]
    /\ UNCHANGED <<crypt, sender, hist, nSends, nFaults, padded, applied, client>>

\* self.crypt.lock() on a poisoned mutex with the Err unwrapped: the thread panics
LockPoisonedPanics(s) ==
    /\ call[s].pc = "lock"
    /\ lock.owner = 0
    /\ lock.poisoned
    /\ call' = [call EXCEPT ![s].pc = "panicked"]
    /\ UNCHANGED <<crypt, lock, sender, hist, nSends, nFaults, padded, applied, client>>

\* self.crypt.lock() on a poisoned mutex: Err(PoisonError), mapped to an io error
LockPoisoned(s) ==
    /\ call[s].pc = "lock"
    /\ lock.owner = 0
    /\ lock.poisoned
    /\ Return(s, call[s], "lock", sender[s], crypt)
    /\ UNCHANGED <<crypt, lock, sender, nSends, nFaults, padded, applied, client>>

\* another holder of the Arc panics while it holds the guard: the mutex is poisoned
Poison ==
    /\ CanFail
    /\ lock.owner = 0
    /\ ~lock.poisoned
    /\ lock' = [lock EXCEPT !.poisoned = TRUE]
    /\ nFaults' = nFaults + 1
    /\ UNCHANGED <<crypt, sender, call, hist, nSends, padded, applied, client>>

\* The guard `crypt` lives to the end of the block (line 100): the owner of the
\* mutex once encrypt.update has returned Ok, for a message with or without a key
OwnerAfterEncrypt(s, first) == IF first THEN s ELSE 0

\* crypt.encrypt.update(&self.packet[..size], &mut self.buffer) (lines 92-94)
Encrypt(s) ==
    /\ call[s].pc = "encrypt"
    /\ \E r \in {EncryptUpdate(crypt.encrypt, SubSeq(sender[s].packet, 1, call[s].size),
                               sender[s].buffer)} :
       LET first == new_crypt_key(call[s].msg) # <<>>
       IN /\ sender' = [sender EXCEPT ![s].buffer = r.buffer]
          /\ call' = [call EXCEPT ![s].size = r.size, ![s].used = crypt.encrypt,
                                  ![s].pc = IF first THEN "update_encrypt" ELSE "transmit"]
          /\ lock' = [lock EXCEPT !.owner = OwnerAfterEncrypt(s, first)]
    /\ UNCHANGED <<crypt, hist, nSends, nFaults, padded, applied, client>>

\* encrypt.update returns Err: the guard is dropped as send returns
EncryptFails(s) ==
    /\ call[s].pc = "encrypt"
    /\ CanFail
    /\ Return(s, call[s], "encrypt", sender[s], crypt)
    /\ lock' = [lock EXCEPT !.owner = 0]
    /\ nFaults' = nFaults + 1
    /\ UNCHANGED <<crypt, sender, nSends, padded, applied, client>>

\* update_key, lines 61-62: self.encrypt = Crypter::new(.., Mode::Encrypt, key, ..)?
UpdateKeyEncrypt(s) ==
    /\ call[s].pc = "update_encrypt"
    /\ crypt' = [crypt EXCEPT !.encrypt = call[s].msg.crypt_key]
    /\ call' = [call EXCEPT ![s].pc = "update_decrypt", ![s].setEnc = TRUE]
    /\ UNCHANGED <<lock, sender, hist, nSends, nFaults, padded, applied, client>>

\* Crypter::new for the encrypt side returns Err: update_key and send return Err
UpdateKeyEncryptFails(s) ==
    /\ call[s].pc = "update_encrypt"
    /\ CanFail
    /\ Return(s, call[s], "update_key", sender[s], crypt)
    /\ lock' = [lock EXCEPT !.owner = 0]
    /\ nFaults' = nFaults + 1
    /\ UNCHANGED <<crypt, sender, nSends, padded, applied, client>>

\* update_key, lines 63-65: self.decrypt = Crypter::new(.., Mode::Decrypt, key, ..)?;
\* the guard is dropped at the end of the block
UpdateKeyDecrypt(s) ==
    /\ call[s].pc = "update_decrypt"
    /\ crypt' = [crypt EXCEPT !.decrypt = call[s].msg.crypt_key]
    /\ call' = [call EXCEPT ![s].pc = "transmit", ![s].setDec = TRUE]
    /\ lock' = [lock EXCEPT !.owner = 0]
    /\ UNCHANGED <<sender, hist, nSends, nFaults, padded, applied, client>>

\* Crypter::new for the decrypt side returns Err, after self.encrypt was replaced
UpdateKeyDecryptFails(s) ==
    /\ call[s].pc = "update_decrypt"
    /\ CanFail
    /\ Return(s, call[s], "update_key", sender[s], crypt)
    /\ lock' = [lock EXCEPT !.owner = 0]
    /\ nFaults' = nFaults + 1
    /\ UNCHANGED <<crypt, sender, nSends, padded, applied, client>>

WriteEv(data) == [op |-> "write", data |-> data]
FlushEv == [op |-> "flush", data |-> <<>>]

\* what a write_all that fails may have handed over before the error
Accepted(data, n) == IF n = 0 THEN <<>> ELSE <<WriteEv(SubSeq(data, 1, n))>>

\* the frame with the body taken HEADER_SIZE bytes longer
FramedWithHeader(s) ==
    [buffer |-> CompatPrefix(sender[s].buffer, call[s].size),
     header |-> Header(call[s].size),
     body |-> SubSeq(CompatPrefix(sender[s].buffer, call[s].size), 1,
                     call[s].size + HEADER_SIZE)]

\* lines 101-105: the second blowfish_compat and the header
Framed(s) ==
    [buffer |-> CompatPrefix(sender[s].buffer, call[s].size),
     header |-> Header(call[s].size),
     body |-> blowfish_compat(SubSeq(sender[s].buffer, 1, call[s].size))]

\* the transmission without the flush
TransmitNoFlush(s) ==
    /\ call[s].pc = "transmit"
    /\ \E f \in {Framed(s)} :
       LET snd == [sender[s] EXCEPT !.buffer = f.buffer,
                       !.wire = @ \o <<WriteEv(f.header), WriteEv(f.body)>>]
       IN /\ sender' = [sender EXCEPT ![s] = snd]
          /\ Return(s, call[s], "Ok", snd, crypt)
    /\ UNCHANGED <<crypt, lock, nSends, nFaults, padded, applied, client>>

\* lines 101-111: blowfish_compat, header, write_all twice, flush, Ok(())
Transmit(s) ==
    /\ call[s].pc = "transmit"
    /\ \E f \in {Framed(s)} :
       LET snd == [sender[s] EXCEPT !.buffer = f.buffer,
                       !.wire = @ \o <<WriteEv(f.header), WriteEv(f.body), FlushEv>>]
       IN /\ sender' = [sender EXCEPT ![s] = snd]
          /\ Return(s, call[s], "Ok", snd, crypt)
    /\ UNCHANGED <<crypt, lock, nSends, nFaults, padded, applied, client>>

\* self.writer.write_all(&header) returns Err (line 108)
TransmitHeaderFails(s) ==
    /\ call[s].pc = "transmit"
    /\ CanFail
    /\ \E n \in 0..(HEADER_SIZE - 1) :
        \E f \in {Framed(s)} :
        LET snd == [sender[s] EXCEPT !.buffer = f.buffer, !.wire = @ \o Accepted(f.header, n)]
        IN /\ sender' = [sender EXCEPT ![s] = snd]
           /\ Return(s, call[s], "write_header", snd, crypt)
    /\ nFaults' = nFaults + 1
    /\ UNCHANGED <<crypt, lock, nSends, padded, applied, client>>

\* self.writer.write_all(&self.buffer[..size]) returns Err (line 109)
TransmitBodyFails(s) ==
    /\ call[s].pc = "transmit"
    /\ CanFail
    /\ \E n \in {0, BF_BLOCK_SIZE} :
        \E f \in {Framed(s)} :
        LET snd == [sender[s] EXCEPT !.buffer = f.buffer,
                        !.wire = @ \o <<WriteEv(f.header)>> \o Accepted(f.body, n)]
        IN /\ sender' = [sender EXCEPT ![s] = snd]
           /\ Return(s, call[s], "write_body", snd, crypt)
    /\ nFaults' = nFaults + 1
    /\ UNCHANGED <<crypt, lock, nSends, padded, applied, client>>

\* self.writer.flush() returns Err (line 110)
TransmitFlushFails(s) ==
    /\ call[s].pc = "transmit"
    /\ CanFail
    /\ \E f \in {Framed(s)} :
       LET snd == [sender[s] EXCEPT !.buffer = f.buffer,
                       !.wire = @ \o <<WriteEv(f.header), WriteEv(f.body)>>]
       IN /\ sender' = [sender EXCEPT ![s] = snd]
          /\ Return(s, call[s], "flush", snd, crypt)
    /\ nFaults' = nFaults + 1
    /\ UNCHANGED <<crypt, lock, nSends, padded, applied, client>>

\* the steps of sender s, which starts a send while fewer than max were started
Step(s, max) ==
    \/ SendBegin(s, max)
    \/ SendBeginRandFails(s, max)
    \/ Lock(s)
    \/ LockPoisoned(s)
    \/ Encrypt(s)
    \/ EncryptFails(s)
    \/ UpdateKeyEncrypt(s)
    \/ UpdateKeyEncryptFails(s)
    \/ UpdateKeyDecrypt(s)
    \/ UpdateKeyDecryptFails(s)
    \/ Transmit(s)
    \/ TransmitHeaderFails(s)
    \/ TransmitBodyFails(s)
    \/ TransmitFlushFails(s)

\* one sender, its sends one after the other
Next == Poison \/ Step(1, MaxSends)

Spec == Init /\ [][Next]_vars

\* two senders on the same ciphers, their sends interleaved
NextShared == Poison \/ \E s \in Senders : Step(s, MaxShared)

SpecShared == Init /\ [][NextShared]_vars

\* one sender and the frames of a few sends, for what a peer recovers from them
NextFrames == Poison \/ Step(1, MaxFrames)

SpecFrames == Init /\ [][NextFrames]_vars

\* --------------------------------------------------- the padding steps
\* ServerMessage has two variants, which encode leaves at the positions 169 and
\* 21: the sends of the messages never bring pad near the capacity.  What pad
\* does there is tried on pad(size, block_size) called on its own, next to the
\* sends of the messages.

\* the sizes pad is given: the lowest, the ones up to the capacity, and the
\* positions encode leaves the cursor at (line 65)
PadPositions ==
    (0..PadLow) \cup ((BUFFER_SIZE - PadHigh)..BUFFER_SIZE)
        \cup {encode(m, Zeros(BUFFER_SIZE), 0).pos : m \in Messages}

PadInputs ==
    {[step |-> "drawn", pos |-> p, block_size |-> b, one |-> [ok |-> TRUE, size |-> 0]] :
        p \in PadPositions, b \in {BLOCK_SIZE, BF_BLOCK_SIZE}}

InitPad == InitSenders /\ padded \in PadInputs /\ applied = NoApply /\ client = NoClient

\* self.pad(size, block_size) on its own (lines 35-46)
ApplyPad ==
    /\ padded.step = "drawn"
    /\ padded' = [padded EXCEPT !.step = "done",
                                !.one = pad(padded.pos, padded.block_size)]
    /\ UNCHANGED <<crypt, lock, sender, call, hist, nSends, nFaults, applied, client>>

\* pad on its own, and the sends of the messages with nothing failing
NextPad ==
    \/ ApplyPad
    \/ SendBegin(1, MaxPadSends)
    \/ Lock(1)
    \/ Encrypt(1)
    \/ UpdateKeyEncrypt(1)
    \/ UpdateKeyDecrypt(1)
    \/ Transmit(1)

SpecPad == InitPad /\ [][NextPad]_vars

\* ------------------------------------------- the functions on their own
\* scramble_modulus, scramble_init, blowfish_compat, encode and decode called on
\* buffers of their own, as the tests of crypt.rs and message.rs call them.

\* bounds of the inputs: the byte values of the blocks given to blowfish_compat,
\* the 4-byte blocks of the buffers given to scramble_init, the cursor positions
\* encode starts from, and the moduli (i -> (a * i + b) % 256) given to
\* scramble_modulus
CompatByteMax == 2
ScrambleLen == 5
EncodePosMax == 2
ModulusSlopeMax == 9

CompatBlocks == {Tuple(f, BLOCK_SIZE) : f \in [1..BLOCK_SIZE -> 0..CompatByteMax]}
CompatInputs ==
    {<<>>, <<1, 2, 3, 4, 5, 6, 7, 8>>}
        \cup CompatBlocks \cup {b \o <<5, 6, 7, 255>> : b \in CompatBlocks}
        \cup {<<1, 2, 3, 4>> \o b : b \in CompatBlocks}

ScrambleWords == {<<0, 0, 0, 0>>, <<255, 255, 255, 255>>, <<1, 2, 3, 4>>, <<5, 6, 7, 8>>}
RECURSIVE ScrambleBuffers(_)
ScrambleBuffers(n) ==
    IF n = 0 THEN {<<>>} ELSE {w \o b : w \in ScrambleWords, b \in ScrambleBuffers(n - 1)}
ScrambleSeeds == {<<0, 0, 0, 0>>, <<255, 255, 255, 255>>, RandKey}
ScrambleInputs ==
    {[buffer |-> b, size |-> BLOCK_SIZE * k, key |-> s] :
        b \in ScrambleBuffers(ScrambleLen), k \in 0..ScrambleLen, s \in ScrambleSeeds}

ModulusInputs ==
    {GoldenModulus, Modulus, Zeros(128)}
        \cup {Tuple([i \in 1..128 |-> (a * i + b) % 256], 128) :
                a \in 0..ModulusSlopeMax, b \in {0, 1, 85, 128, 255}}

EncodeMessages ==
    {InitMsg(sid, m, k) : sid \in {SessionId, GoldenSessionId, 0},
                          m \in {GoldenModulus, Modulus, Zeros(128)}, k \in Keys}
        \cup {GGAuthMsg(GGAuthResult_Skip)}
EncodeInputs ==
    {[msg |-> m, buf |-> Tuple([i \in 1..BUFFER_SIZE |-> bg], BUFFER_SIZE), pos |-> p] :
        m \in EncodeMessages, bg \in {0, 170}, p \in 0..EncodePosMax}

DecodeInputs ==
    {[buf |-> <<>>, pos |-> 0]}
        \cup {[buf |-> <<b>>, pos |-> 0] : b \in 0..255}
        \cup {[buf |-> <<b, c>>, pos |-> p] : b \in {0, 7, 11, 255}, c \in {0, 7, 255}, p \in 0..2}

Drawn(fn, in) == [fn |-> fn, step |-> "drawn", in |-> in]

ApplyInputs ==
    {Drawn("blowfish_compat", x) : x \in CompatInputs}
        \cup {Drawn("scramble_init", x) : x \in ScrambleInputs}
        \cup {Drawn("scramble_modulus", x) : x \in ModulusInputs}
        \cup {Drawn("encode", x) : x \in EncodeInputs}
        \cup {Drawn("decode", x) : x \in DecodeInputs}

InitPure == InitSenders /\ padded = NoPad /\ applied \in ApplyInputs /\ client = NoClient

Others == <<crypt, lock, sender, call, hist, nSends, nFaults, padded, client>>

\* blowfish_compat(&mut buffer)
ApplyCompat ==
    /\ applied.fn = "blowfish_compat"
    /\ applied.step = "drawn"
    /\ applied' = [fn |-> applied.fn, step |-> "once", in |-> applied.in,
                   out |-> blowfish_compat(applied.in)]
    /\ UNCHANGED Others

\* blowfish_compat(&mut buffer) a second time on the same buffer
ApplyCompatAgain ==
    /\ applied.fn = "blowfish_compat"
    /\ applied.step = "once"
    /\ applied' = [fn |-> applied.fn, step |-> "twice", in |-> applied.in,
                   out |-> blowfish_compat(applied.out)]
    /\ UNCHANGED Others

\* scramble_init(&mut buffer, size, key)
ApplyScrambleInit ==
    /\ applied.fn = "scramble_init"
    /\ applied.step = "drawn"
    /\ applied' = [fn |-> applied.fn, step |-> "done", in |-> applied.in,
                   out |-> scramble_init(applied.in.buffer, applied.in.size, applied.in.key)]
    /\ UNCHANGED Others

\* scramble_modulus(&mut modulus)
ApplyScrambleModulus ==
    /\ applied.fn = "scramble_modulus"
    /\ applied.step = "drawn"
    /\ applied' = [fn |-> applied.fn, step |-> "done", in |-> applied.in,
                   out |-> scramble_modulus(applied.in)]
    /\ UNCHANGED Others

\* encode(msg, &mut writer): msg is passed by value, `kept` is the message the
\* caller built it from
ApplyEncode ==
    /\ applied.fn = "encode"
    /\ applied.step = "drawn"
    /\ applied' = [fn |-> applied.fn, step |-> "done", in |-> applied.in,
                   out |-> encode(applied.in.msg, applied.in.buf, applied.in.pos),
                   kept |-> applied.in.msg]
    /\ UNCHANGED Others

\* decode(&mut reader)
ApplyDecode ==
    /\ applied.fn = "decode"
    /\ applied.step = "drawn"
    /\ applied' = [fn |-> applied.fn, step |-> "done", in |-> applied.in,
                   out |-> decode(read_c(applied.in.buf, applied.in.pos))]
    /\ UNCHANGED Others

NextPure ==
    \/ ApplyCompat
    \/ ApplyCompatAgain
    \/ ApplyScrambleInit
    \/ ApplyScrambleModulus
    \/ ApplyEncode
    \/ ApplyDecode

SpecPure == InitPure /\ [][NextPure]_vars

\* ------------------------------------------------------ auth/client.rs
\* An AuthClient built by new(sender) on the sender 1, its init() called by the
\* threads that share the Arc<AuthClient>.

\* bound of the model: the init() calls the threads make between them
MaxInits == 2

Threads == {1, 2}

\* the ErrorKind of the io::Error a failed step of init or of send returns: the
\* two map_err of the locks build ErrorKind::Other, pad builds InvalidData, an
\* openssl ErrorStack converts to Other, the others are the stream's own
ErrorKindOf(res) ==
    CASE res \in {"state", "lock"} -> "Other"
      [] res = "pad" -> "InvalidData"
      [] res \in {"rand", "encrypt", "update_key"} -> "Other"
      [] OTHER -> "Stream"

\* AuthClient::new(sender): the traffic key drawn by rand_bytes and the modulus
\* n of the 1024-bit keypair, 128 bytes with the top bit set
Built(crypt_key, n) ==
    [built |-> TRUE, crypt_key |-> crypt_key, modulus |-> n,
     state |-> [owner |-> 0, poisoned |-> FALSE],
     pc |-> [t \in Threads |-> "idle"], h0 |-> [t \in Threads |-> 0],
     started |-> 0, inits |-> <<>>]

InitClient ==
    /\ InitSenders
    /\ padded = NoPad
    /\ applied = NoApply
    /\ client \in {Built(k, GoldenModulus) : k \in Keys}

\* init, lines 33-42: the message built from the locked state
InitMessage(state) == InitMsg(SessionId, state.modulus, state.crypt_key)

\* init() with the guard of self.state() dropped before the send: the state
\* mutex is free again while the thread is in send
ClientInitUnlocked(t) ==
    /\ client.built
    /\ client.pc[t] = "idle"
    /\ client.started < MaxInits
    /\ client.state.owner = 0
    /\ ~client.state.poisoned
    /\ call[1].pc = "idle"
    /\ \E msg \in {InitMessage(client)} : \E rand \in RandFor(msg) :
        \E pr \in {Prepare(sender[1].packet, msg, rand, TRUE)} : Begin(1, msg, rand, pr)
    /\ client' = [client EXCEPT !.pc[t] = "sending",
                                !.h0[t] = Len(hist[1]), !.started = @ + 1]
    /\ nSends' = nSends + 1
    /\ UNCHANGED <<crypt, lock, nFaults, padded, applied>>

\* init() of thread t, lines 32-43: self.state() on a mutex that is free and not
\* poisoned, the message, and sender.send(msg) up to the crypt lock
ClientInit(t) ==
    /\ client.built
    /\ client.pc[t] = "idle"
    /\ client.started < MaxInits
    /\ client.state.owner = 0
    /\ ~client.state.poisoned
    /\ call[1].pc = "idle"
    /\ \E msg \in {InitMessage(client)} : \E rand \in RandFor(msg) :
        \E pr \in {Prepare(sender[1].packet, msg, rand, TRUE)} : Begin(1, msg, rand, pr)
    /\ client' = [client EXCEPT !.state.owner = t, !.pc[t] = "sending",
                                !.h0[t] = Len(hist[1]), !.started = @ + 1]
    /\ nSends' = nSends + 1
    /\ UNCHANGED <<crypt, lock, nFaults, padded, applied>>

\* the same, with rand_bytes returning Err in send (sender.rs 76)
ClientInitRandFails(t) ==
    /\ client.built
    /\ client.pc[t] = "idle"
    /\ client.started < MaxInits
    /\ client.state.owner = 0
    /\ ~client.state.poisoned
    /\ call[1].pc = "idle"
    /\ CanFail
    /\ \E msg \in {InitMessage(client)} :
        \E pr \in {Prepare(sender[1].packet, msg, NoKey, FALSE)} : Begin(1, msg, NoKey, pr)
    /\ client' = [client EXCEPT !.state.owner = t, !.pc[t] = "sending",
                                !.h0[t] = Len(hist[1]), !.started = @ + 1]
    /\ nSends' = nSends + 1
    /\ nFaults' = nFaults + 1
    /\ UNCHANGED <<crypt, lock, padded, applied>>

\* what init returns once send has returned `sent`, with the send's result
\* dropped
InitResultIgnored(sent) == "Ok"

\* line 43-44: state.sender.send(msg)?; Ok(())
InitResult(sent) == sent

\* init() of thread t returns what send returned; the guard is dropped
ClientInitReturn(t) ==
    /\ client.built
    /\ client.pc[t] = "sending"
    /\ call[1].pc = "idle"
    /\ client' = [client EXCEPT
                     !.state.owner = 0, !.pc[t] = "idle",
                     !.inits = Append(@,
                         [t |-> t, acquired |-> TRUE,
                          res |-> InitResult(hist[1][Len(hist[1])].res),
                          kind |-> IF hist[1][Len(hist[1])].res = "Ok" THEN "none"
                                   ELSE ErrorKindOf(hist[1][Len(hist[1])].res),
                          h0 |-> client.h0[t], h1 |-> Len(hist[1])])]
    /\ UNCHANGED <<crypt, lock, sender, call, hist, nSends, nFaults, padded, applied>>

\* self.state() on a poisoned mutex (lines 47-51): init returns the error
ClientInitPoisoned(t) ==
    /\ client.built
    /\ client.pc[t] = "idle"
    /\ client.started < MaxInits
    /\ client.state.owner = 0
    /\ client.state.poisoned
    /\ client' = [client EXCEPT
                     !.started = @ + 1,
                     !.inits = Append(@,
                         [t |-> t, acquired |-> FALSE, res |-> "state",
                          kind |-> ErrorKindOf("state"),
                          h0 |-> Len(hist[1]), h1 |-> Len(hist[1])])]
    /\ UNCHANGED <<crypt, lock, sender, call, hist, nSends, nFaults, padded, applied>>

\* a thread that held the guard of the state mutex has panicked: the mutex is
\* poisoned
PoisonState ==
    /\ client.built
    /\ CanFail
    /\ client.state.owner = 0
    /\ ~client.state.poisoned
    /\ client' = [client EXCEPT !.state.poisoned = TRUE]
    /\ nFaults' = nFaults + 1
    /\ UNCHANGED <<crypt, lock, sender, call, hist, nSends, padded, applied>>

\* the rest of send on the client's sender
ClientSend ==
    \/ Lock(1)
    \/ LockPoisoned(1)
    \/ Encrypt(1)
    \/ EncryptFails(1)
    \/ UpdateKeyEncrypt(1)
    \/ UpdateKeyEncryptFails(1)
    \/ UpdateKeyDecrypt(1)
    \/ UpdateKeyDecryptFails(1)
    \/ Transmit(1)
    \/ TransmitHeaderFails(1)
    \/ TransmitBodyFails(1)
    \/ TransmitFlushFails(1)

NextClient ==
    \/ Poison
    \/ PoisonState
    \/ ClientSend
    \/ \E t \in Threads : ClientInit(t)
    \/ \E t \in Threads : ClientInitRandFails(t)
    \/ \E t \in Threads : ClientInitReturn(t)
    \/ \E t \in Threads : ClientInitPoisoned(t)

SpecClient == InitClient /\ [][NextClient]_vars

\* ------------------------------------------------------- what was sent

\* what the writer of sender s received during the finished call h
Events(s, h) == SubSeq(sender[s].wire, h.w0 + 1, h.w1)

\* the finished calls of sender s that returned Ok(())
OkCalls(s) == {i \in 1..Len(hist[s]) : hist[s][i].res = "Ok"}

\* read_h on the two bytes of a header (the sizes here are below 2^15)
HeaderValue(header) == header[1] + 256 * header[2]

\* read_d on four bytes: the little-endian i32
I32Value(b) ==
    IF b[4] >= 128
    THEN (b[1] + 256 * b[2] + 65536 * b[3] + 16777216 * (b[4] - 128)) - 2147483647 - 1
    ELSE b[1] + 256 * b[2] + 65536 * b[3] + 16777216 * b[4]

\* the keys of the ciphers that produced the bytes of a body
KeysOf(body) == {body[i][1] : i \in 1..Len(body)}

\* the bytes handed to the writer by the events ev
RECURSIVE BytesWritten(_)
BytesWritten(ev) ==
    IF ev = <<>> THEN 0
    ELSE (IF Head(ev).op = "write" THEN Len(Head(ev).data) ELSE 0) + BytesWritten(Tail(ev))

\* the results of send that are an Err of a step before the writer is used
PreTransport == {"pad", "rand", "scramble", "lock", "encrypt", "update_key"}

\* What a peer holding `key` makes of the bytes of a body.  decrypt.update of a
\* Crypter keyed `key` (crypt.rs 54-55) opens a block only when its eight bytes
\* are the ciphertext, in order, of one block under that key; any other eight
\* bytes decrypt to bytes unrelated to a plaintext, written -1.
DecryptBlock(key, ct) ==
    IF \A j \in 1..BF_BLOCK_SIZE : ct[j] = CipherByte(key, ct[1][2], j - 1)
    THEN ct[1][2]
    ELSE Tuple([j \in 1..BF_BLOCK_SIZE |-> 0 - 1], BF_BLOCK_SIZE)

RECURSIVE DecryptUpdate(_, _)
DecryptUpdate(key, input) ==
    IF Len(input) < BF_BLOCK_SIZE THEN <<>>
    ELSE DecryptBlock(key, SubSeq(input, 1, BF_BLOCK_SIZE))
             \o DecryptUpdate(key, SubSeq(input, BF_BLOCK_SIZE + 1, Len(input)))

\* the plaintext a peer recovers from a body: blowfish_compat, decrypt,
\* blowfish_compat
Recovered(key, body) == blowfish_compat(DecryptUpdate(key, blowfish_compat(body)))

\* `acc` plus the wrapping sum of the 4-byte little-endian blocks of buf at the
\* offsets lo, lo + 4, ... below hi
RECURSIVE WrapSum(_, _, _, _)
RECURSIVE WrapSumRest(_, _, _, _)
WrapSum(buf, lo, hi, acc) ==
    IF lo >= hi THEN acc
    ELSE WrapSumRest(buf, lo + BLOCK_SIZE, hi,
                     WrapAdd32(acc, SubSeq(buf, lo + 1, lo + BLOCK_SIZE)))

\* the blocks from lo on, added to the sum acc of the ones before them
WrapSumRest(buf, lo, hi, acc) ==
    IF Len(acc) >= 0 /\ Len(buf) >= 0 THEN WrapSum(buf, lo, hi, acc) ELSE acc

\* the message encoded at the start of a zeroed packet buffer (lines 59-65)
Encoded(msg) == encode(msg, Zeros(BUFFER_SIZE), 0)

\* the offset after the checksum field of a message (lines 68-71)
ChecksumEnd(msg) == pad(Encoded(msg).pos, BLOCK_SIZE).size + BLOCK_SIZE

\* the packet of a message that is only encoded, padded and given its zero
\* checksum, up to the size the cipher is given (lines 59-71, 84, 86)
PlainPacket(msg) ==
    SubSeq(Encoded(msg).buf, 1, pad(ChecksumEnd(msg), BF_BLOCK_SIZE).size)

\* the bytes a send of msg with the seed rand gives the cipher when it starts on
\* zeroed buffers, before the blowfish_compat of line 85
FreshPacket(pr) == blowfish_compat(SubSeq(pr.packet, 1, pr.size))

\* ------------------------------------------------------------- claims

\* C1: when the first send of a sender is an Init made while the ciphers hold
\* INIT_KEY, and nothing fails, the Init frame is encrypted under INIT_KEY only
\* and every later frame under the key that Init carried only.
C1_KeyOrder ==
    (/\ nFaults = 0
     /\ OkCalls(1) # {}
     /\ hist[1][1].msg.type = "Init"
     /\ hist[1][1].enc0 = INIT_KEY)
    => \A i \in OkCalls(1) :
          KeysOf(Events(1, hist[1][i])[2].data) =
              IF i = 1 THEN {INIT_KEY} ELSE {hist[1][1].msg.crypt_key}

\* C2: the encryption of the Init packet and update_key are one hold of the
\* lock, and no holder of the lock finds encrypt and decrypt keyed differently.
C2_OneHold ==
    \A s \in Senders :
        /\ call[s].pc \in {"update_encrypt", "update_decrypt"} => lock.owner = s
        /\ (call[s].pc = "encrypt" /\ lock.owner = s) => crypt.encrypt = crypt.decrypt

\* C3: whenever no update_key is between its two assignments, whether the calls
\* so far returned Ok or Err, encrypt and decrypt are keyed with the same key.
C3_SameKey ==
    (\A s \in Senders : call[s].pc # "update_decrypt") => crypt.encrypt = crypt.decrypt

\* C4: the key of the encrypt cipher changes only away from INIT_KEY: once it
\* was changed, no later operation changes it again.
C4_RotatedOnce == [][crypt.encrypt' # crypt.encrypt => crypt.encrypt = INIT_KEY]_vars

\* C5 as stated: a send that returned an error has written no byte.
C5_NoPartial ==
    \A s \in Senders : \A i \in 1..Len(hist[s]) :
        hist[s][i].res # "Ok" => Events(s, hist[s][i]) = <<>>

\* C5 as amended: a send that returns Ok has handed over the header, the whole
\* body and a flush, in that order; one that returns the error of a step before
\* the writer is used has written nothing; one that returns the error of a write
\* or of flush has handed over, in order, only a part of the frame and no flush.
C5_FrameOrError ==
    \A s \in Senders : \A i \in 1..Len(hist[s]) :
        /\ hist[s][i].res = "Ok" =>
              /\ Len(Events(s, hist[s][i])) = 3
              /\ Events(s, hist[s][i])[1] = WriteEv(Header(hist[s][i].size))
              /\ Events(s, hist[s][i])[2].op = "write"
              /\ Len(Events(s, hist[s][i])[2].data) = hist[s][i].size
              /\ Events(s, hist[s][i])[3] = FlushEv
        /\ hist[s][i].res \in PreTransport => Events(s, hist[s][i]) = <<>>
        /\ hist[s][i].res = "write_header" =>
              /\ BytesWritten(Events(s, hist[s][i])) < HEADER_SIZE
              /\ \A k \in 1..Len(Events(s, hist[s][i])) :
                    Events(s, hist[s][i])[k] =
                        WriteEv(SubSeq(Header(hist[s][i].size), 1,
                                       Len(Events(s, hist[s][i])[k].data)))
        /\ hist[s][i].res = "write_body" =>
              /\ Len(Events(s, hist[s][i])) \in {1, 2}
              /\ Events(s, hist[s][i])[1] = WriteEv(Header(hist[s][i].size))
              /\ BytesWritten(Events(s, hist[s][i])) < HEADER_SIZE + hist[s][i].size
              /\ \A k \in 2..Len(Events(s, hist[s][i])) : Events(s, hist[s][i])[k].op = "write"
        /\ hist[s][i].res = "flush" =>
              /\ Len(Events(s, hist[s][i])) = 2
              /\ Events(s, hist[s][i])[1] = WriteEv(Header(hist[s][i].size))
              /\ Events(s, hist[s][i])[2].op = "write"
              /\ Len(Events(s, hist[s][i])[2].data) = hist[s][i].size

\* a send returned the error of the body write after the header and the first
\* block of the body were handed over
C5_PartialFrame ==
    \E i \in 1..Len(hist[1]) :
        /\ hist[1][i].res = "write_body"
        /\ Len(Events(1, hist[1][i])) = 2
        /\ BytesWritten(Events(1, hist[1][i])) = HEADER_SIZE + BF_BLOCK_SIZE

\* C6: a send that returned an error left the keys of both ciphers as they were
\* when it was called.
C6_NoResidue ==
    \A i \in 1..Len(hist[1]) :
        hist[1][i].res # "Ok" =>
            /\ hist[1][i].enc1 = hist[1][i].enc0
            /\ hist[1][i].dec1 = hist[1][i].dec0

\* C7: pad yields a size below BUFFER_SIZE or an error, the error exactly when
\* the padded size reaches BUFFER_SIZE, and the size is the next multiple of the
\* block size.  The pads of send precede the lock: a send is at the lock or
\* beyond it only with a size below BUFFER_SIZE, and one that returned the error
\* of a pad has not used the ciphers, has left their keys alone and has written
\* nothing.  The two messages stay far below the capacity: no send of them
\* returns the error of a pad.
C7_PadBelowCapacity ==
    /\ padded.step = "done" =>
          /\ padded.one.size >= padded.pos
          /\ padded.one.size - padded.pos < padded.block_size
          /\ padded.one.size % padded.block_size = 0
          /\ padded.one.ok <=> padded.one.size < BUFFER_SIZE
    /\ call[1].pc # "idle" => call[1].size < BUFFER_SIZE
    /\ \A i \in 1..Len(hist[1]) :
          hist[1][i].res = "pad" =>
              /\ hist[1][i].used = NoKey
              /\ ~hist[1][i].setEnc /\ ~hist[1][i].setDec
              /\ hist[1][i].enc1 = hist[1][i].enc0 /\ hist[1][i].dec1 = hist[1][i].dec0
              /\ Events(1, hist[1][i]) = <<>>
    /\ \A i \in 1..Len(hist[1]) : hist[1][i].res = "Ok" /\ hist[1][i].size < BUFFER_SIZE

\* pad was given a size whose padded size is the capacity and returned the
\* error, and the send of an Init next to it has gone through its four pads
\* to a body of 184 bytes
C7_Overflowed ==
    /\ padded.step = "done"
    /\ padded.pos = BUFFER_SIZE - BLOCK_SIZE + 1
    /\ padded.one = [ok |-> FALSE, size |-> BUFFER_SIZE]
    /\ Len(hist[1]) = 1
    /\ hist[1][1].msg.type = "Init"
    /\ hist[1][1].size = 184

\* C8: the header and the body of a successful send are together at most
\* BUFFER_SIZE bytes and the body is a whole number of cipher blocks.
C8_FrameFits ==
    \A i \in OkCalls(1) :
        /\ BytesWritten(Events(1, hist[1][i])) <= BUFFER_SIZE
        /\ Len(Events(1, hist[1][i])[2].data) % BF_BLOCK_SIZE = 0
        /\ Len(Events(1, hist[1][i])[2].data) % BLOCK_SIZE = 0

\* the largest frame a send makes was sent: the Init, 184 bytes after its header
C8_LargestFrame ==
    \E i \in OkCalls(1) :
        /\ hist[1][i].msg.type = "Init"
        /\ BytesWritten(Events(1, hist[1][i])) = HEADER_SIZE + 184
        /\ Len(Events(1, hist[1][i])[2].data) = 184

\* C9: a successful send hands the writer two header bytes, then the body, then
\* one flush; the header read as a little-endian integer is the length of the
\* body plus HEADER_SIZE; the body is the first `size` bytes of the output
\* buffer; for an Init the body has 184 bytes and the header reads 186.
C9_HeaderAndOrder ==
    \A s \in Senders : \A i \in OkCalls(s) :
        /\ Len(Events(s, hist[s][i])) = 3
        /\ Events(s, hist[s][i])[1].op = "write"
        /\ Len(Events(s, hist[s][i])[1].data) = HEADER_SIZE
        /\ Events(s, hist[s][i])[2].op = "write"
        /\ HeaderValue(Events(s, hist[s][i])[1].data)
               = Len(Events(s, hist[s][i])[2].data) + HEADER_SIZE
        /\ Events(s, hist[s][i])[3] = FlushEv
        /\ (i = Len(hist[s]) /\ call[s].pc = "idle") =>
               Events(s, hist[s][i])[2].data = SubSeq(sender[s].buffer, 1, hist[s][i].size)
        /\ hist[s][i].msg.type = "Init" =>
               /\ Len(Events(s, hist[s][i])[2].data) = 184
               /\ HeaderValue(Events(s, hist[s][i])[1].data) = 186

\* an Init and a GGAuth were both sent successfully
C9_BothSent ==
    /\ \E i \in OkCalls(1) : hist[1][i].msg.type = "Init"
    /\ \E i \in OkCalls(1) : hist[1][i].msg.type = "GGAuth"

\* C10 as stated: the header of a successful Init send reads the number of
\* bytes written after the header.
C10_DeclaredLength ==
    \A i \in OkCalls(1) :
        hist[1][i].msg.type = "Init" =>
            HeaderValue(Events(1, hist[1][i])[1].data)
                = BytesWritten(Events(1, hist[1][i])) - Len(Events(1, hist[1][i])[1].data)

\* C10 as amended: the header of a successful Init send reads the number of
\* bytes written in all, the header included: HEADER_SIZE more than the number
\* written after the header.
C10_DeclaredTotal ==
    \A i \in OkCalls(1) :
        hist[1][i].msg.type = "Init" =>
            /\ HeaderValue(Events(1, hist[1][i])[1].data) = BytesWritten(Events(1, hist[1][i]))
            /\ HeaderValue(Events(1, hist[1][i])[1].data)
                   = (BytesWritten(Events(1, hist[1][i])) - Len(Events(1, hist[1][i])[1].data))
                       + HEADER_SIZE

\* an Init was sent successfully after another send
C10_InitFramed ==
    \E i \in OkCalls(1) :
        /\ i > 1
        /\ hist[1][i].msg.type = "Init"
        /\ BytesWritten(Events(1, hist[1][i])) > HEADER_SIZE

\* the plaintext `plain` recovered from an Init frame is the scrambled packet of
\* `orig`, the encoded message with its zero checksum ending at `off`
TrailerOf(plain, orig, off, seed) ==
    /\ Len(plain) = pad(off + BLOCK_SIZE, BF_BLOCK_SIZE).size
    /\ SubSeq(plain, 1, BLOCK_SIZE) = SubSeq(orig, 1, BLOCK_SIZE)
    /\ SubSeq(plain, BLOCK_SIZE + 1, 2 * BLOCK_SIZE) =
           Xor32(SubSeq(orig, BLOCK_SIZE + 1, 2 * BLOCK_SIZE),
                 WrapAdd32(seed, SubSeq(orig, BLOCK_SIZE + 1, 2 * BLOCK_SIZE)))
    /\ SubSeq(plain, off - BLOCK_SIZE + 1, off) =
           Xor32(I32Bytes(0), WrapSum(orig, BLOCK_SIZE, off, seed))
    /\ SubSeq(plain, off + 1, off + BLOCK_SIZE) = WrapSum(orig, BLOCK_SIZE, off, seed)
    /\ \A k \in (off + BLOCK_SIZE + 1)..Len(plain) : plain[k] = 0

\* C11: the body of a successful Init send, put through blowfish_compat, the
\* cipher keyed as encrypt was before the rotation, and blowfish_compat again,
\* is the scrambled packet: its first block is that of the encoded message, the
\* next is xored with the running key, and the four bytes after the checksum
\* field are the seed plus the wrapping sum of the blocks of the encoded message
\* (zero checksum included) from offset 4 up to there; the rest is zero padding.
C11_TransformOrder ==
    \A i \in OkCalls(1) :
        hist[1][i].msg.type = "Init" =>
            /\ hist[1][i].used = hist[1][i].enc0
            /\ TrailerOf(Recovered(hist[1][i].enc0, Events(1, hist[1][i])[2].data),
                         Encoded(hist[1][i].msg).buf,
                         ChecksumEnd(hist[1][i].msg), hist[1][i].rand)

\* an Init was sent successfully while the ciphers held a key other than INIT_KEY
C11_InitRecovered ==
    \E i \in OkCalls(1) :
        /\ hist[1][i].msg.type = "Init"
        /\ hist[1][i].enc0 # INIT_KEY
        /\ Recovered(hist[1][i].enc0, Events(1, hist[1][i])[2].data)[1] = 0

\* C12: decode on an input that has a byte at the cursor moves the cursor by
\* exactly one byte, whatever follows; when that byte is 0x07 the result is
\* AuthGameGuard; for every other byte the result is an InvalidData error whose
\* text carries the two hex digits of that byte; a message is returned for no
\* other tag than 0x07.
C12_TagOnly ==
    (applied.fn = "decode" /\ applied.step = "done") =>
        /\ applied.out.ok =>
              /\ applied.in.pos < Len(applied.in.buf)
              /\ applied.in.buf[applied.in.pos + 1] = 7
        /\ applied.in.pos < Len(applied.in.buf) =>
              /\ applied.out.pos = applied.in.pos + 1
              /\ applied.in.buf[applied.in.pos + 1] = 7 =>
                    /\ applied.out.ok
                    /\ applied.out.msg = AuthGameGuard
              /\ applied.in.buf[applied.in.pos + 1] # 7 =>
                    /\ ~applied.out.ok
                    /\ applied.out.kind = "InvalidData"
                    /\ applied.out.msg = NoClientMessage
                    /\ 16 * applied.out.text[2][1] + applied.out.text[2][2]
                           = applied.in.buf[applied.in.pos + 1]

\* decode has read the tag 0x07 followed by another byte, and has rejected a
\* tag whose value as an i8 is negative
C12_Decoded ==
    /\ applied.fn = "decode"
    /\ applied.step = "done"
    /\ \/ /\ applied.in = [buf |-> <<7, 255>>, pos |-> 0]
          /\ applied.out.ok
          /\ applied.out.pos = 1
       \/ /\ applied.in = [buf |-> <<255>>, pos |-> 0]
          /\ applied.out.text = <<"Invalid packet id (0x", <<15, 15>>, ")">>

\* C13: an init() call that acquired the state lock has called send exactly
\* once, with the Init message of the session id 0x1eadbeef, the 128-byte modulus
\* of the keypair and the traffic key generated by new; it returned Ok exactly
\* when that send returned Ok, and an error when the send returned an error.
\* While the call is in progress at most one send was made for it.
C13_InitSendsOnce ==
    /\ \A i \in 1..Len(client.inits) :
          client.inits[i].acquired =>
              /\ client.inits[i].h1 = client.inits[i].h0 + 1
              /\ hist[1][client.inits[i].h1].msg
                     = [type |-> "Init", session_id |-> 514703087,
                        modulus |-> client.modulus, crypt_key |-> client.crypt_key]
              /\ Len(hist[1][client.inits[i].h1].msg.modulus) = 128
              /\ client.inits[i].res = "Ok" <=> hist[1][client.inits[i].h1].res = "Ok"
              /\ client.inits[i].res # "Ok" =>
                     client.inits[i].res = hist[1][client.inits[i].h1].res
    /\ \A t \in Threads :
          client.pc[t] = "sending" =>
              Len(hist[1]) + (IF call[1].pc = "idle" THEN 0 ELSE 1) = client.h0[t] + 1

\* one init() returned Ok and another returned the error of its send
C13_OkAndErr ==
    /\ Len(client.inits) = 2
    /\ client.inits[1].res = "Ok"
    /\ client.inits[2].acquired
    /\ client.inits[2].res = "write_body"
    /\ client.inits[2].t # client.inits[1].t

\* C14: an init() that finds the state mutex poisoned and a send that finds the
\* crypt mutex poisoned return an error of kind Other: no thread panics on it,
\* the init has called no send, the send has written nothing and has not used
\* the ciphers, and the init whose send failed so returns that error.
C14_LockErrorReturned ==
    /\ \A s \in Senders : call[s].pc # "panicked"
    /\ \A i \in 1..Len(client.inits) :
          /\ ~client.inits[i].acquired =>
                /\ client.inits[i].res = "state"
                /\ client.inits[i].kind = "Other"
                /\ client.inits[i].h1 = client.inits[i].h0
          /\ (client.inits[i].acquired /\ hist[1][client.inits[i].h1].res = "lock") =>
                /\ client.inits[i].res = "lock"
                /\ client.inits[i].kind = "Other"
    /\ \A i \in 1..Len(hist[1]) :
          hist[1][i].res = "lock" =>
              /\ ErrorKindOf(hist[1][i].res) = "Other"
              /\ Events(1, hist[1][i]) = <<>>
              /\ hist[1][i].used = NoKey
              /\ hist[1][i].enc1 = hist[1][i].enc0 /\ hist[1][i].dec1 = hist[1][i].dec0
    /\ (lock.poisoned /\ lock.owner = 0) => call[1].pc # "encrypt"

\* an init() has returned Ok, the crypt mutex was then poisoned, and the next
\* init() has returned the error of the lock from its send; the state mutex is
\* free again
C14_PoisonedSeen ==
    /\ Len(client.inits) = 2
    /\ client.state.owner = 0
    /\ client.inits[1].res = "Ok"
    /\ client.inits[2].acquired
    /\ client.inits[2].res = "lock"
    /\ lock.poisoned
    /\ ~client.state.poisoned

\* C15: on a buffer whose length is a multiple of 4, blowfish_compat keeps the
\* length and in every 4-byte block puts byte 3 at 0, byte 2 at 1, byte 1 at 2
\* and byte 0 at 3; applied a second time it gives back the original bytes.
C15_SelfInverse ==
    (applied.fn = "blowfish_compat" /\ Len(applied.in) % BLOCK_SIZE = 0) =>
        /\ applied.step = "once" =>
              /\ Len(applied.out) = Len(applied.in)
              /\ \A k \in 0..((Len(applied.in) \div BLOCK_SIZE) - 1) :
                    /\ applied.out[BLOCK_SIZE * k + 1] = applied.in[BLOCK_SIZE * k + 4]
                    /\ applied.out[BLOCK_SIZE * k + 2] = applied.in[BLOCK_SIZE * k + 3]
                    /\ applied.out[BLOCK_SIZE * k + 3] = applied.in[BLOCK_SIZE * k + 2]
                    /\ applied.out[BLOCK_SIZE * k + 4] = applied.in[BLOCK_SIZE * k + 1]
        /\ applied.step = "twice" => applied.out = applied.in
        /\ (applied.step = "once" /\ applied.in = <<1, 2, 3, 4, 5, 6, 7, 8>>) =>
              applied.out = <<4, 3, 2, 1, 8, 7, 6, 5>>

\* blowfish_compat was applied twice to two blocks that it does not leave as
\* they are
C15_TwiceApplied ==
    /\ applied.fn = "blowfish_compat"
    /\ applied.step = "twice"
    /\ Len(applied.in) = 2 * BLOCK_SIZE
    /\ blowfish_compat(applied.in) # applied.in
    /\ applied.in[1] # applied.in[4]
    /\ applied.in[2] # applied.in[3]

\* the result `out` of scramble_init on the arguments `in`: Ok; every block at
\* the offsets 4, 8, ... below size is the original block xored with the seed
\* plus the wrapping sum of the original blocks from offset 4 up to and including
\* it; the block at offset size is the seed plus the wrapping sum of the original
\* blocks in [4, size); the bytes after it are the original ones
ScrambleLayout(in, out) ==
    /\ out.ok
    /\ Len(out.buffer) = Len(in.buffer)
    /\ \A k \in 1..((in.size \div BLOCK_SIZE) - 1) :
          SubSeq(out.buffer, BLOCK_SIZE * k + 1, BLOCK_SIZE * k + BLOCK_SIZE) =
              Xor32(SubSeq(in.buffer, BLOCK_SIZE * k + 1, BLOCK_SIZE * k + BLOCK_SIZE),
                    WrapSum(in.buffer, BLOCK_SIZE, BLOCK_SIZE * k + BLOCK_SIZE, in.key))
    /\ SubSeq(out.buffer, in.size + 1, in.size + BLOCK_SIZE) =
          WrapSum(in.buffer, BLOCK_SIZE, in.size, in.key)
    /\ SubSeq(out.buffer, in.size + BLOCK_SIZE + 1, Len(out.buffer)) =
          SubSeq(in.buffer, in.size + BLOCK_SIZE + 1, Len(in.buffer))

\* the arguments of a finished call of scramble_init with a block-aligned size
\* and room for the trailer
ScrambleRoom ==
    /\ applied.fn = "scramble_init"
    /\ applied.step = "done"
    /\ applied.in.size % BLOCK_SIZE = 0
    /\ applied.in.size + BLOCK_SIZE <= Len(applied.in.buffer)

\* C16 as stated: for every buffer, block-aligned size and key with room for the
\* trailer, the blocks below size are xored with the running key, the trailer at
\* offset size is the seed plus the sum of the original blocks, and bytes 0..4
\* are left unchanged.
C16_FirstBlockKept ==
    ScrambleRoom =>
        /\ ScrambleLayout(applied.in, applied.out)
        /\ SubSeq(applied.out.buffer, 1, BLOCK_SIZE) = SubSeq(applied.in.buffer, 1, BLOCK_SIZE)

\* C16 as amended: the same, with bytes 0..4 left unchanged when size is at
\* least 4; with size 0 the trailer, which is then the seed, is written over
\* them.
C16_FirstBlockKeptFromFour ==
    ScrambleRoom =>
        /\ ScrambleLayout(applied.in, applied.out)
        /\ applied.in.size >= BLOCK_SIZE =>
              SubSeq(applied.out.buffer, 1, BLOCK_SIZE) = SubSeq(applied.in.buffer, 1, BLOCK_SIZE)
        /\ applied.in.size = 0 => SubSeq(applied.out.buffer, 1, BLOCK_SIZE) = applied.in.key

\* scramble_init was called on the buffer of tests::scramble_init_success with
\* two more blocks below size: three blocks were xored, each with the key run
\* on from the one before, and the trailer is the seed plus the three of them
C16_RunningKeyCarried ==
    /\ applied.fn = "scramble_init"
    /\ applied.step = "done"
    /\ applied.in = [buffer |-> <<1, 2, 3, 4, 5, 6, 7, 8, 1, 2, 3, 4,
                                  255, 255, 255, 255, 0, 0, 0, 0>>,
                     size |-> 16, key |-> <<239, 190, 173, 222>>]
    /\ applied.out.ok
    /\ applied.out.buffer = <<1, 2, 3, 4, 241, 194, 179, 238,
                              244, 196, 180, 238, 11, 57, 72, 21, 244, 198, 183, 234>>

\* what encode leaves outside the n bytes from the cursor position: the buffer
\* keeps its length and the bytes before the position and from n bytes after it
EncodeWithin(in, out, n) ==
    /\ out.pos = in.pos + n
    /\ Len(out.buf) = Len(in.buf)
    /\ SubSeq(out.buf, 1, in.pos) = SubSeq(in.buf, 1, in.pos)
    /\ SubSeq(out.buf, in.pos + n + 1, Len(out.buf)) = SubSeq(in.buf, in.pos + n + 1, Len(in.buf))

\* C17: from the cursor position, encode of an Init writes the tag 0x00, the
\* session id and 0xC621 as 4 little-endian bytes each, the 128 bytes of the
\* scrambled modulus, leaves 16 bytes as they were and writes the 16 bytes of
\* the key, the cursor ending 169 bytes further; encode of a GGAuth writes the
\* tag 0x0B and the result code as 4 little-endian bytes and leaves 16 bytes as
\* they were, the cursor ending 21 bytes further; nothing else is written, and
\* the message the caller holds keeps its modulus.
C17_WireLayout ==
    (applied.fn = "encode" /\ applied.step = "done") =>
        /\ applied.kept = applied.in.msg
        /\ applied.in.msg.type = "Init" =>
              /\ EncodeWithin(applied.in, applied.out, 169)
              /\ applied.out.buf[applied.in.pos + 1] = 0
              /\ I32Value(SubSeq(applied.out.buf, applied.in.pos + 2, applied.in.pos + 5))
                     = applied.in.msg.session_id
              /\ SubSeq(applied.out.buf, applied.in.pos + 6, applied.in.pos + 9)
                     = <<33, 198, 0, 0>>
              /\ SubSeq(applied.out.buf, applied.in.pos + 10, applied.in.pos + 137)
                     = scramble_modulus(applied.kept.modulus)
              /\ applied.in.msg.modulus = GoldenModulus =>
                     SubSeq(applied.out.buf, applied.in.pos + 10, applied.in.pos + 137)
                         = GoldenScrambled
              /\ SubSeq(applied.out.buf, applied.in.pos + 138, applied.in.pos + 153)
                     = SubSeq(applied.in.buf, applied.in.pos + 138, applied.in.pos + 153)
              /\ SubSeq(applied.out.buf, applied.in.pos + 154, applied.in.pos + 169)
                     = applied.in.msg.crypt_key
        /\ applied.in.msg.type = "GGAuth" =>
              /\ EncodeWithin(applied.in, applied.out, 21)
              /\ applied.out.buf[applied.in.pos + 1] = 11
              /\ SubSeq(applied.out.buf, applied.in.pos + 2, applied.in.pos + 5)
                     = <<11, 0, 0, 0>>
              /\ SubSeq(applied.out.buf, applied.in.pos + 6, applied.in.pos + 21)
                     = SubSeq(applied.in.buf, applied.in.pos + 6, applied.in.pos + 21)

\* encode has written the Init of tests::server_init from a cursor position
\* other than 0 into a buffer that was not zero
C17_InitEncoded ==
    /\ applied.fn = "encode"
    /\ applied.step = "done"
    /\ applied.in.msg = InitMsg(GoldenSessionId, GoldenModulus, KeyA)
    /\ applied.in.pos = 2
    /\ applied.in.buf[1] = 170
    /\ applied.out.pos = 171
    /\ SubSeq(applied.out.buf, 1, 11) = <<170, 170, 0, 239, 190, 173, 222, 33, 198, 0, 0>>
    /\ applied.out.buf[12] = 118
    /\ applied.kept.modulus[1] = 154

\* the four loops of scramble_modulus, each as the buffer it leaves, byte by
\* byte, from the buffer it is given (i is the 1-based place of byte i - 1)
ModSwapped(m) ==
    Tuple([i \in 1..128 |-> IF i <= 4 THEN m[i + 77]
                            ELSE IF i >= 78 /\ i <= 81 THEN m[i - 77] ELSE m[i]], 128)
ModXorLow(m) == Tuple([i \in 1..128 |-> IF i <= 64 THEN BitXor(m[i], m[i + 64]) ELSE m[i]], 128)
ModXorMid(m) ==
    Tuple([i \in 1..128 |-> IF i >= 14 /\ i <= 17 THEN BitXor(m[i], m[i + 39]) ELSE m[i]], 128)
ModXorHigh(m) == Tuple([i \in 1..128 |-> IF i > 64 THEN BitXor(m[i], m[i - 64]) ELSE m[i]], 128)

\* C18: scramble_modulus leaves in its 128-byte buffer what the four steps make
\* of it in this order, each on what the one before left: bytes i and i + 77
\* swapped for i in [0,4); byte i xored with byte i + 64 for i in [0,64); byte
\* i + 13 xored with byte i + 52 for i in [0,4); byte i + 64 xored with byte i
\* for i in [0,64).  The modulus of tests::scramble_modulus_success becomes the
\* vector the test expects.
C18_FourSteps ==
    (applied.fn = "scramble_modulus" /\ applied.step = "done") =>
        /\ Len(applied.out) = 128
        /\ applied.out = ModXorHigh(ModXorMid(ModXorLow(ModSwapped(applied.in))))
        /\ applied.in = GoldenModulus => applied.out = GoldenScrambled

\* scramble_modulus was applied to the modulus of its test, on which the order
\* of the second and third steps shows
C18_GoldenDone ==
    /\ applied.fn = "scramble_modulus"
    /\ applied.step = "done"
    /\ applied.in = GoldenModulus
    /\ applied.out[1] = 118
    /\ ModXorLow(ModXorMid(ModSwapped(applied.in))) # ModXorMid(ModXorLow(ModSwapped(applied.in)))

\* C19: when the first packet of a sender is the Init that carries the traffic
\* key, that packet is scrambled and carries the trailer, and every later packet
\* is only encoded, padded, checksummed, shimmed and encrypted: what the peer
\* recovers from it is the plain packet.
C19_FirstOnly ==
    (OkCalls(1) # {} /\ hist[1][1].msg.type = "Init" /\ hist[1][1].res = "Ok") =>
        \A i \in OkCalls(1) :
            /\ i = 1 =>
                  Recovered(hist[1][i].used, Events(1, hist[1][i])[2].data)
                      # PlainPacket(hist[1][i].msg)
            /\ i > 1 =>
                  Recovered(hist[1][i].used, Events(1, hist[1][i])[2].data)
                      = PlainPacket(hist[1][i].msg)

\* the plaintext `plain` recovered from the frame of the finished send h is what
\* a send of the same message and seed makes on zeroed buffers; for a GGAuth it is
\* the tag, the result code and zeros; for an Init it is the scramble of the
\* encoded message with zero reserved bytes, padding and checksum
FrameOf(plain, h) ==
    /\ plain = FreshPacket(Prepare(Zeros(BUFFER_SIZE), h.msg, h.rand, TRUE))
    /\ h.msg.type = "GGAuth" => plain = <<11, 11, 0, 0, 0>> \o Zeros(27)
    /\ h.msg.type = "Init" =>
           TrailerOf(plain,
                     <<0>> \o I32Bytes(h.msg.session_id) \o <<33, 198, 0, 0>>
                         \o scramble_modulus(h.msg.modulus) \o Zeros(16)
                         \o h.msg.crypt_key \o Zeros(7),
                     176, h.rand)

\* C20: what the peer recovers from a frame is what a send of the same message
\* and seed makes on zeroed buffers, whatever the sends before, longer or failed,
\* left in them: the frame is a function of the message, the seed and the key of
\* the cipher.  For a GGAuth the 16 reserved bytes, the padding and the checksum
\* field are zero; for an Init the scrambled packet and its trailer are those of
\* the encoded message with zero reserved bytes, padding and checksum.
C20_ZeroedBuffers ==
    \A i \in OkCalls(1) :
        /\ FrameOf(Recovered(hist[1][i].used, Events(1, hist[1][i])[2].data), hist[1][i])
        /\ KeysOf(Events(1, hist[1][i])[2].data) = {hist[1][i].used}

\* a GGAuth was sent successfully after a longer Init whose send had filled both
\* buffers and failed at the flush
C20_AfterLonger ==
    /\ Len(hist[1]) = 2
    /\ hist[1][1].msg.type = "Init" /\ hist[1][1].res = "flush"
    /\ hist[1][2].msg.type = "GGAuth" /\ hist[1][2].res = "Ok"
    /\ hist[1][2].size < hist[1][1].size

\* the session state the first n returned init() calls have led to: Created
\* until an init() has returned Ok, AwaitingGameGuardResponse from then on.  The
\* AuthClientState keeps no such field: the state is read off the calls
SessionAfter(n) ==
    IF \E j \in 1..n : client.inits[j].res = "Ok"
    THEN "AwaitingGameGuardResponse" ELSE "Created"

\* C21: the session follows Created -> AwaitingGameGuardResponse ->
\* GameGuardAcknowledged and has no other transition: an init() takes effect
\* only from Created, so an init() called once an earlier one has returned Ok
\* sends nothing and the sender is given at most one Init that it transmits
\* whole; an init() that failed leaves the session in Created; a GGAuth is sent
\* only in answer to a decoded request, so none is sent by the init() calls.
C21_SessionMachine ==
    /\ \A i \in 1..Len(client.inits) :
          SessionAfter(i - 1) # "Created" => client.inits[i].h1 = client.inits[i].h0
    /\ \A t \in Threads :
          (client.pc[t] = "sending" /\ SessionAfter(Len(client.inits)) # "Created")
              => Len(hist[1]) = client.h0[t] /\ call[1].pc = "idle"
    /\ Cardinality({i \in OkCalls(1) : hist[1][i].msg.type = "Init"}) <= 1
    /\ \A i \in 1..Len(client.inits) :
          client.inits[i].res # "Ok" => SessionAfter(i) = SessionAfter(i - 1)
    /\ \A i \in 1..Len(hist[1]) : hist[1][i].msg.type # "GGAuth"

\* the events ev the writer received during the call h are a part of the frame
\* of that call and of no other: its header, then bytes encrypted under the key
\* of the call that open to the start of its own packet, then the flush
OwnFrame(h, ev) ==
    /\ Len(ev) <= 3
    /\ Len(ev) >= 1 =>
          /\ ev[1].op = "write"
          /\ ev[1].data = SubSeq(Header(h.size), 1, Len(ev[1].data))
    /\ Len(ev) >= 2 =>
          /\ ev[1].data = Header(h.size)
          /\ ev[2].op = "write"
          /\ KeysOf(ev[2].data) = {h.used}
          /\ Recovered(h.used, ev[2].data) =
                 SubSeq(FreshPacket(Prepare(Zeros(BUFFER_SIZE), h.msg, h.rand, TRUE)),
                        1, Len(ev[2].data))
    /\ Len(ev) = 3 =>
          /\ Len(ev[2].data) = h.size
          /\ ev[3] = FlushEv

\* C22: with several threads calling init() on one AuthClient, a thread is in
\* send exactly while it holds the state lock, so at most one is, and a send is
\* in progress only under the lock.  What the transport received is the events
\* of the calls one after the other in the order the calls were made: each call's
\* events are its own header followed at once by its own body (a part of them
\* when a write failed) with nothing of another frame in between.  Each frame is
\* encrypted under the key the send before it left, so the frames are written in
\* the order they were encrypted, and no frame under INIT_KEY follows a frame
\* under the rotated key.
C22_SendsSerialized ==
    /\ \A t \in Threads : client.pc[t] = "sending" <=> client.state.owner = t
    /\ call[1].pc # "idle" => client.state.owner # 0
    /\ \A i \in 1..Len(client.inits) :
          client.inits[i].h0 = (IF i = 1 THEN 0 ELSE client.inits[i - 1].h1)
    /\ \A i \in 1..Len(hist[1]) :
          /\ hist[1][i].w0 = (IF i = 1 THEN 0 ELSE hist[1][i - 1].w1)
          /\ OwnFrame(hist[1][i], Events(1, hist[1][i]))
          /\ hist[1][i].used # NoKey =>
                hist[1][i].used = (IF i = 1 THEN INIT_KEY ELSE hist[1][i - 1].enc1)
          /\ \A j \in 1..(i - 1) :
                hist[1][i].used = INIT_KEY => hist[1][j].used \in {INIT_KEY, NoKey}
    /\ Len(sender[1].wire) = (IF hist[1] = <<>> THEN 0 ELSE hist[1][Len(hist[1])].w1)

\* two threads have each called init() and both returned Ok: the transport holds
\* the frame encrypted under INIT_KEY and after it the frame encrypted under the
\* traffic key
C22_TwoThreadsSent ==
    /\ Len(client.inits) = 2
    /\ client.inits[1].t # client.inits[2].t
    /\ client.inits[1].res = "Ok" /\ client.inits[2].res = "Ok"
    /\ Len(sender[1].wire) = 6
    /\ KeysOf(sender[1].wire[2].data) = {INIT_KEY}
    /\ KeysOf(sender[1].wire[5].data) = {client.crypt_key}

====
